---- MODULE Spec2Model ----
(***************************************************************************)
(* Model of the Walmart SKU/store snapshot scraper                         *)
(* (scripts/walmart_sku_store_check.py, scraper.py).                       *)
(*                                                                         *)
(* Text is modelled as a sequence of one-character strings, so that        *)
(* substring search, lower-casing and stripping are computed, not assumed. *)
(* JSON values are tagged records [t |-> tag, v |-> payload].              *)
(***************************************************************************)
EXTENDS Integers, Sequences, FiniteSets, TLC

VARIABLES
    \* main(): the run over stores x SKUs
    stores, skus, pc, si, ki, results, files, ctxLog, fetchLog, failure,
    \* _extract_braced_json(raw_text, marker)
    raw_text, segment,
    \* _extract_embedded_data(html): the script elements of the page
    scripts, located,
    \* _extract_product_fields(data, sku)
    data, sku, product, extracted,
    \* fetch_sku_store_data(page, sku, ...): the page retrieved and its outcome
    page, outcome,
    \* input/skus.json and input/stores.json as read
    input

runVars == <<input, stores, skus, pc, si, ki, results, files, ctxLog, fetchLog, failure>>
braceVars == <<raw_text, segment>>
locVars == <<scripts, located>>
fieldVars == <<data, sku, product, extracted>>
pageVars == <<page, outcome>>
vars == <<runVars, braceVars, locVars, fieldVars, pageVars>>

(***************************************************************************)
(* Bounds of the model                                                     *)
(***************************************************************************)
MaxTextLen == 7
MaxScripts == 3
MaxStores == 2
MaxSkus == 2

(***************************************************************************)
(* Python values                                                           *)
(***************************************************************************)
\* Python None, and "not called yet", as values of the same shape as a result.
NoneV == [t |-> "none", v |-> <<>>]
Pending == [t |-> "pending", v |-> <<>>]
VStr(s) == [t |-> "str", v |-> s]
VInt(n) == [t |-> "int", v |-> n]
VBool(b) == [t |-> "bool", v |-> b]
VNum(s) == [t |-> "num", v |-> s]
VMap(kvs) == [t |-> "map", v |-> kvs]
VList(items) == [t |-> "list", v |-> items]

(***************************************************************************)
(* str methods: find, in, lower, strip, str(int)                           *)
(***************************************************************************)
Min(S) == CHOOSE x \in S : \A y \in S : x <= y

\* hay[i .. i+Len(pat)-1] = pat
MatchAt(hay, pat, i) ==
    /\ i >= 1
    /\ i + Len(pat) - 1 <= Len(hay)
    /\ \A k \in 1..Len(pat) : hay[i + k - 1] = pat[k]

\* str.find(pat, from), 1-based; 0 when absent (Python: -1)
Find(hay, pat, from) ==
    LET hits == {i \in from..(Len(hay) - Len(pat) + 1) : MatchAt(hay, pat, i)}
    IN IF hits = {} THEN 0 ELSE Min(hits)

\* pat in hay
Contains(hay, pat) == Find(hay, pat, 1) # 0

LowerChar(c) ==
    LET upper == <<"A","B","C","D","E","F","G","H","I","J","K","L","M",
                   "N","O","P","Q","R","S","T","U","V","W","X","Y","Z">>
        lower == <<"a","b","c","d","e","f","g","h","i","j","k","l","m",
                   "n","o","p","q","r","s","t","u","v","w","x","y","z">>
    IN IF \E i \in 1..Len(upper) : upper[i] = c
       THEN lower[CHOOSE i \in 1..Len(upper) : upper[i] = c]
       ELSE c

\* str.lower()
Lower(s) == [i \in 1..Len(s) |-> LowerChar(s[i])]

IsSpace(c) == c \in {" ", "\t", "\n", "\r"}

\* str.strip()
Strip(s) ==
    LET keep == {i \in 1..Len(s) : ~IsSpace(s[i])}
    IN IF keep = {} THEN <<>>
       ELSE SubSeq(s, Min(keep), CHOOSE i \in keep : \A j \in keep : j <= i)

RECURSIVE NatToStr(_)
NatToStr(n) ==
    LET digits == <<"0","1","2","3","4","5","6","7","8","9">>
    IN IF n < 10 THEN <<digits[n + 1]>>
       ELSE NatToStr(n \div 10) \o <<digits[(n % 10) + 1]>>

\* str(int)
IntToStr(n) == IF n < 0 THEN <<"-">> \o NatToStr(-n) ELSE NatToStr(n)

(***************************************************************************)
(* _extract_braced_json                                                    *)
(***************************************************************************)
\* The marker "__WML_REDUX_INITIAL_STATE__", one character in the model's alphabet.
Marker == <<"M">>

\* The scanner's locals after the characters read so far; done: the index returned.
ScanInit == [depth |-> 0, in_string |-> FALSE, escaped |-> FALSE, done |-> 0]

\* Mutant: a backslash inside a string literal escapes nothing.
ScanCharNoEscape(st, ch, idx) ==
    IF st.in_string
    THEN IF ch = "\"" THEN [st EXCEPT !.in_string = FALSE] ELSE st
    ELSE IF ch = "\"" THEN [st EXCEPT !.in_string = TRUE]
    ELSE IF ch = "{" THEN [st EXCEPT !.depth = st.depth + 1]
    ELSE IF ch = "}"
         THEN IF st.depth - 1 = 0
              THEN [st EXCEPT !.depth = st.depth - 1, !.done = idx]
              ELSE [st EXCEPT !.depth = st.depth - 1]
    ELSE st

\* One iteration of the for loop over raw_text[idx].
ScanChar(st, ch, idx) ==
    IF st.in_string
    THEN IF st.escaped THEN [st EXCEPT !.escaped = FALSE]
         ELSE IF ch = "\\" THEN [st EXCEPT !.escaped = TRUE]
         ELSE IF ch = "\"" THEN [st EXCEPT !.in_string = FALSE]
         ELSE st
    ELSE IF ch = "\"" THEN [st EXCEPT !.in_string = TRUE]
    ELSE IF ch = "{" THEN [st EXCEPT !.depth = st.depth + 1]
    ELSE IF ch = "}"
         THEN IF st.depth - 1 = 0
              THEN [st EXCEPT !.depth = st.depth - 1, !.done = idx]
              ELSE [st EXCEPT !.depth = st.depth - 1]
    ELSE st

\* The for loop from idx to the end of the text: the index of the closing
\* brace, or 0 when the loop runs off the end.
RECURSIVE ScanFrom(_, _, _)
ScanFrom(text, idx, st) ==
    IF idx > Len(text) THEN 0
    ELSE LET nx == ScanChar(st, text[idx], idx)
         IN IF nx.done # 0 THEN nx.done ELSE ScanFrom(text, idx + 1, nx)

_extract_braced_json(text, marker) ==
    LET marker_pos == Find(text, marker, 1)
        start == IF marker_pos = 0 THEN 0 ELSE Find(text, <<"{">>, marker_pos)
        end == IF start = 0 THEN 0 ELSE ScanFrom(text, start, ScanInit)
    IN IF marker_pos = 0 THEN NoneV
       ELSE IF start = 0 THEN NoneV
       ELSE IF end = 0 THEN NoneV
       ELSE VStr(SubSeq(text, start, end))

\* The characters the scanner distinguishes, the marker, and one other character.
BraceAlphabet == {"{", "}", "\"", "\\", "M", "x"}

(***************************************************************************)
(* json.loads, on the JSON the model's texts can spell: objects and        *)
(* strings, with the escapes \" \\ \/ \n \r \t, and no whitespace.         *)
(* A result is [ok, val, next]; ok = FALSE is json.JSONDecodeError.        *)
(***************************************************************************)
JsonFail == [ok |-> FALSE, val |-> NoneV, next |-> 0]
JsonOk(val, next) == [ok |-> TRUE, val |-> val, next |-> next]

Unescape(c) ==
    CASE c = "n" -> "\n"
      [] c = "r" -> "\r"
      [] c = "t" -> "\t"
      [] OTHER -> c

\* The characters of a string literal from index j, after the opening quote.
RECURSIVE JsonStrBody(_, _, _)
JsonStrBody(s, j, acc) ==
    IF j > Len(s) THEN JsonFail
    ELSE IF s[j] = "\"" THEN JsonOk(VStr(acc), j + 1)
    ELSE IF s[j] = "\\"
         THEN IF j + 1 <= Len(s) /\ s[j + 1] \in {"\"", "\\", "/", "n", "r", "t"}
              THEN JsonStrBody(s, j + 2, Append(acc, Unescape(s[j + 1])))
              ELSE JsonFail
    ELSE JsonStrBody(s, j + 1, Append(acc, s[j]))

RECURSIVE JsonValue(_, _)
RECURSIVE JsonMembers(_, _, _)

\* The members of an object from index i, after "{" or ",": "key":value ...
JsonMembers(s, i, acc) ==
    IF i > Len(s) \/ s[i] # "\"" THEN JsonFail
    ELSE LET k == JsonStrBody(s, i + 1, <<>>)
         IN IF ~k.ok \/ k.next > Len(s) \/ s[k.next] # ":" THEN JsonFail
            ELSE LET val == JsonValue(s, k.next + 1)
                 IN IF ~val.ok \/ val.next > Len(s) THEN JsonFail
                    ELSE LET kvs == Append(acc, <<k.val.v, val.val>>)
                         IN IF s[val.next] = "}" THEN JsonOk(VMap(kvs), val.next + 1)
                            ELSE IF s[val.next] = "," THEN JsonMembers(s, val.next + 1, kvs)
                            ELSE JsonFail

JsonValue(s, i) ==
    IF i > Len(s) THEN JsonFail
    ELSE IF s[i] = "\"" THEN JsonStrBody(s, i + 1, <<>>)
    ELSE IF s[i] = "{"
         THEN IF i + 1 <= Len(s) /\ s[i + 1] = "}" THEN JsonOk(VMap(<<>>), i + 2)
              ELSE JsonMembers(s, i + 1, <<>>)
    ELSE JsonFail

\* json.loads(s): the whole text must be one value.
JsonLoads(s) ==
    LET r == JsonValue(s, 1)
    IN IF r.ok /\ r.next = Len(s) + 1 THEN r ELSE JsonFail

(***************************************************************************)
(* _extract_embedded_data                                                  *)
(* A script element is [id, body]: id is TRUE for id="__NEXT_DATA__",      *)
(* body is script.string or script.get_text() or "".                       *)
(***************************************************************************)
\* soup.find("script", id="__NEXT_DATA__"): the index of the first, or 0.
FindNextData(ss) ==
    LET hits == {i \in 1..Len(ss) : ss[i].id}
    IN IF hits = {} THEN 0 ELSE Min(hits)

\* Mutant: a candidate that fails to decode ends the scan.
RECURSIVE ScriptLoopStopOnFailure(_, _)
ScriptLoopStopOnFailure(ss, i) ==
    IF i > Len(ss) THEN NoneV
    ELSE LET text == ss[i].body
         IN IF ~Contains(text, Marker) THEN ScriptLoopStopOnFailure(ss, i + 1)
            ELSE LET payload == _extract_braced_json(text, Marker)
                 IN IF payload.t = "none" \/ payload.v = <<>>
                    THEN ScriptLoopStopOnFailure(ss, i + 1)
                    ELSE LET r == JsonLoads(payload.v)
                         IN IF r.ok THEN r.val ELSE NoneV

\* for script in soup.find_all("script"), from the i-th script on.
RECURSIVE ScriptLoop(_, _)
ScriptLoop(ss, i) ==
    IF i > Len(ss) THEN NoneV
    ELSE LET text == ss[i].body
         IN IF ~Contains(text, Marker) THEN ScriptLoop(ss, i + 1)
            ELSE LET payload == _extract_braced_json(text, Marker)
                 IN IF payload.t = "none" \/ payload.v = <<>>
                    THEN ScriptLoop(ss, i + 1)
                    ELSE LET r == JsonLoads(payload.v)
                         IN IF r.ok THEN r.val ELSE ScriptLoop(ss, i + 1)

_extract_embedded_data(ss) ==
    LET nd == FindNextData(ss)
        first == IF nd # 0 /\ ss[nd].body # <<>>
                 THEN JsonLoads(ss[nd].body) ELSE JsonFail
    IN IF first.ok THEN first.val ELSE ScriptLoop(ss, 1)

(***************************************************************************)
(* The dictionary keys the code reads, as text                             *)
(***************************************************************************)
K_sku == <<"s", "k", "u">>
K_id == <<"i", "d">>
K_usItemId == <<"u", "s", "I", "t", "e", "m", "I", "d">>
K_name == <<"n", "a", "m", "e">>
K_title == <<"t", "i", "t", "l", "e">>
K_productName == <<"p", "r", "o", "d", "u", "c", "t", "N", "a", "m", "e">>
K_currentPrice == <<"c", "u", "r", "r", "e", "n", "t", "P", "r", "i", "c", "e">>
K_price == <<"p", "r", "i", "c", "e">>
K_priceDisplay == <<"p", "r", "i", "c", "e", "D", "i", "s", "p", "l", "a", "y">>
K_finalPrice == <<"f", "i", "n", "a", "l", "P", "r", "i", "c", "e">>
K_wasPrice == <<"w", "a", "s", "P", "r", "i", "c", "e">>
K_regularPrice == <<"r", "e", "g", "u", "l", "a", "r", "P", "r", "i", "c", "e">>
K_listPrice == <<"l", "i", "s", "t", "P", "r", "i", "c", "e">>
K_compareAtPrice == <<"c", "o", "m", "p", "a", "r", "e", "A", "t", "P", "r", "i", "c", "e">>
K_availabilityStatus == <<"a", "v", "a", "i", "l", "a", "b", "i", "l", "i", "t", "y", "S", "t", "a", "t", "u", "s">>
K_availabilityText == <<"a", "v", "a", "i", "l", "a", "b", "i", "l", "i", "t", "y", "T", "e", "x", "t">>
K_fulfillmentLabel == <<"f", "u", "l", "f", "i", "l", "l", "m", "e", "n", "t", "L", "a", "b", "e", "l">>
K_inventoryStatus == <<"i", "n", "v", "e", "n", "t", "o", "r", "y", "S", "t", "a", "t", "u", "s">>
K_inStock == <<"i", "n", "S", "t", "o", "c", "k">>
K_value == <<"v", "a", "l", "u", "e">>
K_amount == <<"a", "m", "o", "u", "n", "t">>
K_current == <<"c", "u", "r", "r", "e", "n", "t">>
K_minPrice == <<"m", "i", "n", "P", "r", "i", "c", "e">>

(***************************************************************************)
(* dict access and truthiness                                              *)
(***************************************************************************)
\* key in node
HasKey(node, key) == \E i \in 1..Len(node.v) : node.v[i][1] = key

\* node.get(key)
Get(node, key) ==
    IF HasKey(node, key)
    THEN node.v[CHOOSE i \in 1..Len(node.v) : node.v[i][1] = key][2]
    ELSE NoneV

\* bool(value)
Truthy(value) ==
    CASE value.t = "none" -> FALSE
      [] value.t = "bool" -> value.v
      [] value.t = "int" -> value.v # 0
      [] OTHER -> value.v # <<>>

\* a or b
PyOr(a, b) == IF Truthy(a) THEN a ELSE b

\* str(value), for the values an identifier takes in the model: str, int, bool.
PyStr(value) ==
    CASE value.t = "str" -> value.v
      [] value.t = "int" -> IntToStr(value.v)
      [] value.t = "bool" -> IF value.v THEN <<"T","r","u","e">>
                                        ELSE <<"F","a","l","s","e">>
      [] OTHER -> <<"N","o","n","e">>

(***************************************************************************)
(* _walk_items: the mappings of a tree, in pre-order                       *)
(***************************************************************************)
RECURSIVE _walk_items(_)
RECURSIVE WalkEach(_, _)

\* yield from _walk_items(x) for each x of values, from the i-th on
WalkEach(values, i) ==
    IF i > Len(values) THEN <<>>
    ELSE _walk_items(values[i]) \o WalkEach(values, i + 1)

_walk_items(node) ==
    IF node.t = "map"
    THEN <<node>> \o WalkEach([i \in 1..Len(node.v) |-> node.v[i][2]], 1)
    ELSE IF node.t = "list" THEN WalkEach(node.v, 1)
    ELSE <<>>

(***************************************************************************)
(* _first_str, _number_from                                                *)
(***************************************************************************)
RECURSIVE FirstStrFrom(_, _, _)
FirstStrFrom(node, keys, i) ==
    IF i > Len(keys) THEN NoneV
    ELSE LET value == Get(node, keys[i])
         IN IF value.t = "str" /\ Strip(value.v) # <<>>
            THEN VStr(Strip(value.v))
            ELSE FirstStrFrom(node, keys, i + 1)

_first_str(node, keys) == FirstStrFrom(node, keys, 1)

IsDigit(c) == c \in {"0","1","2","3","4","5","6","7","8","9"}

\* re.sub(r"[^0-9.,-]", "", value).replace(",", "")
Cleaned(s) == SelectSeq(s, LAMBDA c : IsDigit(c) \/ c \in {".", "-"})

\* float(cleaned) succeeds: an optional sign, digits with at most one point,
\* at least one digit (cleaned holds only digits, "." and "-").
ParsesAsFloat(s) ==
    LET body == IF s # <<>> /\ s[1] = "-" THEN Tail(s) ELSE s
    IN /\ \A i \in 1..Len(body) : body[i] # "-"
       /\ Cardinality({i \in 1..Len(body) : body[i] = "."}) <= 1
       /\ \E i \in 1..Len(body) : IsDigit(body[i])

NumberKeys == <<K_price, K_value, K_amount, K_current, K_minPrice>>

RECURSIVE _number_from(_)
RECURSIVE NumberFromKeys(_, _)

NumberFromKeys(value, i) ==
    IF i > Len(NumberKeys) THEN NoneV
    ELSE IF HasKey(value, NumberKeys[i])
         THEN LET found == _number_from(Get(value, NumberKeys[i]))
              IN IF found.t # "none" THEN found ELSE NumberFromKeys(value, i + 1)
    ELSE NumberFromKeys(value, i + 1)

\* A float is kept as the text it was read from (an int n as "n.0").
_number_from(value) ==
    CASE value.t = "int" -> VNum(IntToStr(value.v) \o <<".", "0">>)
      [] value.t = "bool" -> VNum(IF value.v THEN <<"1", ".", "0">> ELSE <<"0", ".", "0">>)
      [] value.t = "num" -> value
      [] value.t = "str" ->
            IF Cleaned(value.v) = <<>> THEN NoneV
            ELSE IF ParsesAsFloat(Cleaned(value.v)) THEN VNum(Cleaned(value.v))
            ELSE NoneV
      [] value.t = "map" -> NumberFromKeys(value, 1)
      [] OTHER -> NoneV

(***************************************************************************)
(* _extract_product_fields                                                 *)
(***************************************************************************)
TitleKeys == <<K_name, K_title, K_productName>>
PriceCurrentKeys == <<K_currentPrice, K_price, K_priceDisplay, K_finalPrice>>
PriceRegularKeys == <<K_wasPrice, K_regularPrice, K_listPrice, K_compareAtPrice>>
AvailabilityKeys == <<K_availabilityStatus, K_availabilityText, K_fulfillmentLabel,
                      K_inventoryStatus>>

TokInStock == <<"i", "n", " ", "s", "t", "o", "c", "k">>
TokAvailable == <<"a", "v", "a", "i", "l", "a", "b", "l", "e">>
TokPickup == <<"p", "i", "c", "k", "u", "p">>
TokOutOfStock == <<"o", "u", "t", " ", "o", "f", " ", "s", "t", "o", "c", "k">>
TokUnavailable == <<"u", "n", "a", "v", "a", "i", "l", "a", "b", "l", "e">>
TokSoldOut == <<"s", "o", "l", "d", " ", "o", "u", "t">>
TokRupture == <<"r", "u", "p", "t", "u", "r", "e">>

InStockTokens == <<TokInStock, TokAvailable, TokPickup>>
OutOfStockTokens == <<TokOutOfStock, TokUnavailable, TokSoldOut, TokRupture>>

\* any(token in text for token in tokens)
AnyTokenIn(tokens, text) == \E i \in 1..Len(tokens) : Contains(text, tokens[i])

\* node.get("sku") or node.get("id") or node.get("usItemId")
NodeSku(node) == PyOr(PyOr(Get(node, K_sku), Get(node, K_id)), Get(node, K_usItemId))

\* isinstance(node_sku, (str, int)) and str(node_sku).strip() == sku_norm
SkuMatches(node, sku_norm) ==
    /\ NodeSku(node).t \in {"str", "int", "bool"}
    /\ Strip(PyStr(NodeSku(node))) = sku_norm

HasTitle(node) == _first_str(node, TitleKeys).t # "none"

\* Mutant: the first titled node in walk order wins, matching or not.
ResolveProductFirstTitled(tree, target) ==
    LET titled == SelectSeq(_walk_items(tree), HasTitle)
    IN IF titled # <<>> THEN titled[1] ELSE NoneV

\* The walk and the choice of product: candidates[0], else
\* fallback_candidates[0], else None.
ResolveProduct(tree, target) ==
    LET sku_norm == Strip(target)
        titled == SelectSeq(_walk_items(tree), HasTitle)
        candidates == SelectSeq(titled, LAMBDA n : SkuMatches(n, sku_norm))
        fallback_candidates == SelectSeq(titled, LAMBDA n : ~SkuMatches(n, sku_norm))
    IN IF candidates # <<>> THEN candidates[1]
       ELSE IF fallback_candidates # <<>> THEN fallback_candidates[1]
       ELSE NoneV

\* for key in keys: if key in product: n = _number_from(product[key]); break if n
RECURSIVE PriceFrom(_, _, _)
PriceFrom(prod, keys, i) ==
    IF i > Len(keys) THEN NoneV
    ELSE IF HasKey(prod, keys[i]) /\ _number_from(Get(prod, keys[i])).t # "none"
         THEN _number_from(Get(prod, keys[i]))
    ELSE PriceFrom(prod, keys, i + 1)

\* in_stock: the inStock flag when it is a bool, else read from the text.
InStockOf(prod, availability_text) ==
    LET in_stock == Get(prod, K_inStock)
        status_lower == Lower(IF availability_text.t = "none" THEN <<>>
                              ELSE availability_text.v)
    IN IF in_stock.t = "bool" THEN in_stock
       ELSE IF AnyTokenIn(InStockTokens, status_lower) THEN VBool(TRUE)
       ELSE IF AnyTokenIn(OutOfStockTokens, status_lower) THEN VBool(FALSE)
       ELSE NoneV

\* "sku": str(product.get("sku") or sku)
OutputSku(prod, target) == PyStr(PyOr(Get(prod, K_sku), VStr(target)))

_extract_product_fields(tree, target) ==
    LET prod == ResolveProduct(tree, target)
        title == IF prod.t = "none" THEN NoneV ELSE _first_str(prod, TitleKeys)
        availability_text == _first_str(prod, AvailabilityKeys)
    IN IF prod.t = "none" \/ ~Truthy(prod) THEN NoneV
       ELSE IF title.t = "none" THEN NoneV
       ELSE [t |-> "facts",
             sku |-> OutputSku(prod, target),
             title |-> title.v,
             price_current |-> PriceFrom(prod, PriceCurrentKeys, 1),
             price_regular |-> PriceFrom(prod, PriceRegularKeys, 1),
             in_stock |-> InStockOf(prod, availability_text),
             availability |-> availability_text]

(***************************************************************************)
(* _page_is_not_found, _page_is_blocked, fetch_sku_store_data              *)
(* A page is what page.goto leaves behind:                                 *)
(*   transport  "ok", "timeout" (PlaywrightTimeoutError) or "error" (any   *)
(*              other exception of the browser)                            *)
(*   status     response.status, 0 when there is no response               *)
(*   text       the markup outside the script elements                     *)
(*   scripts    the script elements                                        *)
(*   url        page.url                                                   *)
(***************************************************************************)
Tok404 == <<"4", "0", "4">>
TokPageIntrouvable == <<"p", "a", "g", "e", " ", "i", "n", "t", "r", "o", "u", "v", "a", "b", "l", "e">>
TokPageNotFound == <<"p", "a", "g", "e", " ", "n", "o", "t", " ", "f", "o", "u", "n", "d">>
TokErrorsPath == <<"/", "e", "r", "r", "o", "r", "s", "/">>
TokBlockedPath == <<"/", "b", "l", "o", "c", "k", "e", "d">>
TokAccessDenied == <<"a", "c", "c", "e", "s", "s", " ", "d", "e", "n", "i", "e", "d">>
TokAutomatedAccess == <<"a", "u", "t", "o", "m", "a", "t", "e", "d", " ", "a", "c", "c", "e", "s", "s">>
TokCaptcha == <<"c", "a", "p", "t", "c", "h", "a">>
TokVerifyHuman == <<"v", "e", "r", "i", "f", "y", " ", "y", "o", "u", " ", "a", "r", "e", " ", "h", "u", "m", "a", "n">>
TokForbidden == <<"f", "o", "r", "b", "i", "d", "d", "e", "n">>

NotFoundTokens == <<Tok404, TokPageIntrouvable, TokPageNotFound>>
BlockedTokens == <<TokAccessDenied, TokAutomatedAccess, TokCaptcha, TokVerifyHuman,
                   TokForbidden>>

RECURSIVE JoinBodies(_, _)
JoinBodies(ss, i) == IF i > Len(ss) THEN <<>> ELSE ss[i].body \o JoinBodies(ss, i + 1)

\* page.content(): the markup, script bodies included
PageContent(p) == p.text \o JoinBodies(p.scripts, 1)

_page_is_not_found(html, final_url) ==
    IF AnyTokenIn(NotFoundTokens, Lower(html)) THEN TRUE
    ELSE Contains(Lower(final_url), TokErrorsPath)

_page_is_blocked(html, final_url) ==
    IF AnyTokenIn(BlockedTokens, Lower(html)) THEN TRUE
    ELSE Contains(Lower(final_url), TokBlockedPath)

\* A FetchOutcome (checked_at left out); facts is None when nothing was extracted.
Result(sku_, status, store_id, store_slug, facts) ==
    [t |-> "result", sku |-> sku_, status |-> status, store_id |-> store_id,
     store_slug |-> store_slug, facts |-> facts]

Raised == [t |-> "raise"]

\* Mutant: the price is looked at before the stock flag.
StatusOfFactsPriceFirst(facts) ==
    IF facts.price_current.t # "none" THEN "ok"
    ELSE IF facts.in_stock.t = "bool" /\ facts.in_stock.v = FALSE THEN "out_of_stock"
    ELSE "not_found"

\* The status of extracted facts (the if / elif / else closing the function).
StatusOfFacts(facts) ==
    IF facts.in_stock.t = "bool" /\ facts.in_stock.v = FALSE THEN "out_of_stock"
    ELSE IF facts.price_current.t # "none" THEN "ok"
    ELSE "not_found"

\* The two tests made on the page before any extraction.
ClassifyPage(p, html) ==
    IF p.status \in {403, 429} \/ _page_is_blocked(html, p.url) THEN "blocked"
    ELSE IF p.status = 404 \/ _page_is_not_found(html, p.url) THEN "not_found"
    ELSE "continue"

fetch_sku_store_data(p, sku_, store_id, store_slug) ==
    IF p.transport = "timeout"
    THEN Result(sku_, "not_found", store_id, store_slug, NoneV)
    ELSE IF p.transport = "error" THEN Raised
    ELSE LET html == PageContent(p)
             early == ClassifyPage(p, html)
             embedded_data == _extract_embedded_data(p.scripts)
             facts == IF embedded_data.t = "none" THEN NoneV
                      ELSE _extract_product_fields(embedded_data, sku_)
         IN IF early # "continue"
            THEN Result(sku_, early, store_id, store_slug, NoneV)
            ELSE IF embedded_data.t = "none"
            THEN Result(sku_, "not_found", store_id, store_slug, NoneV)
            ELSE IF facts.t = "none"
            THEN Result(sku_, "not_found", store_id, store_slug, NoneV)
            ELSE Result(facts.sku, StatusOfFacts(facts), store_id, store_slug, facts)

\* main(): try: fetch_sku_store_data(...) except Exception: a not_found result
FetchOrNotFound(p, sku_, store_id, store_slug) ==
    LET result == fetch_sku_store_data(p, sku_, store_id, store_slug)
    IN IF result.t = "raise"
       THEN Result(sku_, "not_found", store_id, store_slug, NoneV)
       ELSE result

(***************************************************************************)
(* The states in which a component is not in use                           *)
(***************************************************************************)
RunIdle ==
    /\ input = <<>> /\ stores = <<>> /\ skus = <<>> /\ pc = "idle"
    /\ si = 0 /\ ki = 0 /\ results = <<>> /\ files = <<>>
    /\ ctxLog = <<>> /\ fetchLog = <<>> /\ failure = "none"
BraceIdle == raw_text = <<>> /\ segment = Pending
LocIdle == scripts = <<>> /\ located = Pending
FieldIdle == data = NoneV /\ sku = <<>> /\ product = Pending /\ extracted = Pending
PageIdle == page = NoneV /\ outcome = Pending

(***************************************************************************)
(* SpecBraces: _extract_braced_json applied to every text over the         *)
(* alphabet, up to MaxTextLen characters                                   *)
(***************************************************************************)
InitBraces ==
    /\ \E k \in 0..MaxTextLen : raw_text \in [1..k -> BraceAlphabet]
    /\ segment = Pending
    /\ RunIdle /\ LocIdle /\ FieldIdle /\ PageIdle

ExtractBraced ==
    /\ segment.t = "pending"
    /\ segment' = _extract_braced_json(raw_text, Marker)
    /\ UNCHANGED <<raw_text, runVars, locVars, fieldVars, pageVars>>

NextBraces == ExtractBraced

SpecBraces == InitBraces /\ [][NextBraces]_vars

(***************************************************************************)
(* SpecLocate: _extract_embedded_data applied to every sequence of up to   *)
(* MaxScripts script elements                                              *)
(***************************************************************************)
ScriptBodies ==
    <<<<>>,
      <<"{", "\"", "a", "\"", ":", "{", "}", "}">>,
      <<"{", "\"", "a", "\"", ":">>,
      <<"M", "=", "{", "\"", "b", "\"", ":", "{", "}", "}", ";">>,
      <<"M", "=", "{", "x", "}", ";">>,
      <<"M", "=", "{", "\"", "c", "\"", ":", "\"", "}", "\"", "}", ";", "x">>,
      <<"M", "=", "{">>,
      <<"M", "=", "x">>,
      <<"{", "\"", "M", "\"", ":", "{", "}", "}">>,
      <<"x">>>>

Script(id, body) == [id |-> id, body |-> body]

ScriptElements == {Script(id, ScriptBodies[b]) : id \in BOOLEAN, b \in 1..Len(ScriptBodies)}

InitLocate ==
    /\ scripts \in UNION {[1..n -> ScriptElements] : n \in 0..MaxScripts}
    /\ located = Pending
    /\ RunIdle /\ BraceIdle /\ FieldIdle /\ PageIdle

LocateEmbedded ==
    /\ located.t = "pending"
    /\ located' = _extract_embedded_data(scripts)
    /\ UNCHANGED <<scripts, runVars, braceVars, fieldVars, pageVars>>

NextLocate == LocateEmbedded

SpecLocate == InitLocate /\ [][NextLocate]_vars

(***************************************************************************)
(* SpecFields: _extract_product_fields applied to product trees            *)
(***************************************************************************)
\* A key that the node does not carry.
Absent == [t |-> "absent", v |-> <<>>]

\* The entry key: value of a dict literal, or nothing when the value is Absent.
Kv(key, value) == IF value.t = "absent" THEN <<>> ELSE <<<<key, value>>>>

TargetSku == <<"1", "2", "3">>
K_child == <<"c", "h", "i", "l", "d">>
TitleAlpha == <<"A", "l", "p", "h", "a">>
TitleBeta == <<"B", "e", "t", "a">>

IdKeys == <<K_sku, K_id, K_usItemId>>
\* Identifiers equal to the target once stringified and stripped, and others.
MatchingIds == <<VStr(<<"1", "2", "3">>), VStr(<<" ", "1", "2", "3", " ">>), VInt(123)>>
OtherIds == <<VStr(<<"9", "9", "9">>), VInt(999)>>

\* The title entry: none for 0, else under the k-th title key.
TitleEntry(k, title) == IF k = 0 THEN <<>> ELSE <<<<TitleKeys[k], VStr(title)>>>>

AvailabilityTexts ==
    <<<<"I", "n", " ", "S", "t", "o", "c", "k", " ", "-", " ", "P", "i", "c", "k", "u", "p", " ", "T", "o", "d", "a", "y">>,
      <<"O", "u", "t", " ", "o", "f", " ", "s", "t", "o", "c", "k">>,
      <<"S", "h", "i", "p", "s", " ", "i", "n", " ", "2", " ", "d", "a", "y", "s">>,
      <<"U", "n", "a", "v", "a", "i", "l", "a", "b", "l", "e">>,
      <<"S", "O", "L", "D", " ", "O", "U", "T">>,
      <<"R", "u", "p", "t", "u", "r", "e", " ", "d", "e", " ", "s", "t", "o", "c", "k">>,
      <<"A", "v", "a", "i", "l", "a", "b", "l", "e">>,
      <<"O", "u", "t", " ", "o", "f", " ", "s", "t", "o", "c", "k", " ", "-", " ", "p", "i", "c", "k", "u", "p", " ", "l", "a", "t", "e", "r">>,
      <<"P", "i", "c", "k", "u", "p">>,
      <<" ", " ">>>>

StockFlags == <<Absent, VBool(TRUE), VBool(FALSE), VStr(<<"y", "e", "s">>), NoneV>>

Prices ==
    <<Absent,
      VInt(42),
      VStr(<<"$", "1", ",", "2", "3", "4", ".", "5", "0">>),
      VStr(<<"-">>),
      VMap(<<<<K_price, VMap(<<<<K_value, VStr(<<"1", "9", ".", "9", "9">>)>>>>)>>>>)>>

\* Two product summaries, A carrying a matching identifier and B another one,
\* as siblings of a list in either order, or one nested in the other.
TwoNodeTree(arrangement, ka, va, ta, kb, vb, tb) ==
    LET a == <<<<IdKeys[ka], MatchingIds[va]>>>> \o TitleEntry(ta, TitleAlpha)
        b == <<<<IdKeys[kb], OtherIds[vb]>>>> \o TitleEntry(tb, TitleBeta)
    IN CASE arrangement = 1 -> VList(<<VMap(a), VMap(b)>>)
         [] arrangement = 2 -> VList(<<VMap(b), VMap(a)>>)
         [] arrangement = 3 -> VMap(a \o <<<<K_child, VMap(b)>>>>)
         [] OTHER -> VMap(b \o <<<<K_child, VList(<<VMap(a)>>)>>>>)

\* One product with a stock flag, an availability text and a price.
StockTree(flag, ak, text, price) ==
    VMap(<<<<K_sku, VStr(TargetSku)>>, <<K_name, VStr(TitleAlpha)>>>>
         \o Kv(K_inStock, StockFlags[flag])
         \o (IF ak = 0 THEN <<>>
             ELSE <<<<AvailabilityKeys[ak], VStr(AvailabilityTexts[text])>>>>)
         \o Kv(K_currentPrice, Prices[price]))

SkuValues == <<Absent, VStr(<<>>), VStr(<<"9", "9", "9">>), VStr(<<"1", "2", "3">>),
               VInt(999), VStr(<<" ", "9", "9", "9">>)>>
IdValues == <<Absent, VStr(<<"9", "9", "9">>), VStr(<<"5", "5", "5">>),
              VStr(<<"1", "2", "3">>)>>
UsItemIdValues == <<Absent, VStr(<<"7", "7", "7">>), VStr(<<"1", "2", "3">>)>>

\* One titled product with any of the three identifier keys.
IdTree(s, i, u) ==
    VMap(Kv(K_sku, SkuValues[s]) \o Kv(K_id, IdValues[i])
         \o Kv(K_usItemId, UsItemIdValues[u])
         \o <<<<K_title, VStr(TitleAlpha)>>, <<K_price, VInt(42)>>>>)

InitFields ==
    /\ sku = TargetSku
    /\ product = Pending
    /\ extracted = Pending
    /\ \/ \E arrangement \in 1..4, ka \in 1..Len(IdKeys), va \in 1..Len(MatchingIds),
            ta \in 0..Len(TitleKeys), kb \in 1..Len(IdKeys), vb \in 1..Len(OtherIds),
            tb \in 0..Len(TitleKeys) :
            data = TwoNodeTree(arrangement, ka, va, ta, kb, vb, tb)
       \/ \E flag \in 1..Len(StockFlags), ak \in 0..Len(AvailabilityKeys),
            text \in 1..Len(AvailabilityTexts), price \in 1..Len(Prices) :
            data = StockTree(flag, ak, text, price)
       \/ \E s \in 1..Len(SkuValues), i \in 1..Len(IdValues),
            u \in 1..Len(UsItemIdValues) :
            data = IdTree(s, i, u)
    /\ RunIdle /\ BraceIdle /\ LocIdle /\ PageIdle

ExtractProductFields ==
    /\ extracted.t = "pending"
    /\ product' = ResolveProduct(data, sku)
    /\ extracted' = _extract_product_fields(data, sku)
    /\ UNCHANGED <<data, sku, runVars, braceVars, locVars, pageVars>>

NextFields == ExtractProductFields

SpecFields == InitFields /\ [][NextFields]_vars


(***************************************************************************)
(* SpecClassify: fetch_sku_store_data, under the try/except of main, on    *)
(* every combination of transport outcome, HTTP status, markup, final URL  *)
(* and embedded payload                                                    *)
(***************************************************************************)
JsonInStockPriced ==
    <<"{", "\"", "s", "k", "u", "\"", ":", "\"", "1", "\"", ",", "\"", "n", "a", "m",
      "e", "\"", ":", "\"", "A", "\"", ",", "\"", "p", "r", "i", "c", "e", "\"", ":",
      "\"", "9", ".", "5", "\"", ",", "\"", "a", "v", "a", "i", "l", "a", "b", "i",
      "l", "i", "t", "y", "S", "t", "a", "t", "u", "s", "\"", ":", "\"", "I", "n", " ",
      "s", "t", "o", "c", "k", "\"", "}">>
JsonSoldOutPriced ==
    <<"{", "\"", "s", "k", "u", "\"", ":", "\"", "1", "\"", ",", "\"", "n", "a", "m",
      "e", "\"", ":", "\"", "A", "\"", ",", "\"", "p", "r", "i", "c", "e", "\"", ":",
      "\"", "9", ".", "5", "\"", ",", "\"", "a", "v", "a", "i", "l", "a", "b", "i",
      "l", "i", "t", "y", "S", "t", "a", "t", "u", "s", "\"", ":", "\"", "S", "o", "l",
      "d", " ", "o", "u", "t", "\"", "}">>
JsonPricedOnly ==
    <<"{", "\"", "s", "k", "u", "\"", ":", "\"", "1", "\"", ",", "\"", "n", "a", "m",
      "e", "\"", ":", "\"", "A", "\"", ",", "\"", "p", "r", "i", "c", "e", "\"", ":",
      "\"", "9", ".", "5", "\"", "}">>
JsonTitleOnly ==
    <<"{", "\"", "s", "k", "u", "\"", ":", "\"", "1", "\"", ",", "\"", "n", "a", "m",
      "e", "\"", ":", "\"", "A", "\"", "}">>
JsonInStockUnpriced ==
    <<"{", "\"", "s", "k", "u", "\"", ":", "\"", "1", "\"", ",", "\"", "n", "a", "m",
      "e", "\"", ":", "\"", "A", "\"", ",", "\"", "a", "v", "a", "i", "l", "a", "b",
      "i", "l", "i", "t", "y", "S", "t", "a", "t", "u", "s", "\"", ":", "\"", "I", "n",
      " ", "s", "t", "o", "c", "k", "\"", "}">>
JsonUntitled ==
    <<"{", "\"", "s", "k", "u", "\"", ":", "\"", "1", "\"", ",", "\"", "p", "r", "i",
      "c", "e", "\"", ":", "\"", "9", ".", "5", "\"", "}">>
JsonTruncated ==
    <<"{", "\"", "s", "k", "u", "\"", ":">>
ReduxSoldOutPriced ==
    <<"M", "=", "{", "\"", "s", "k", "u", "\"", ":", "\"", "1", "\"", ",", "\"", "n",
      "a", "m", "e", "\"", ":", "\"", "A", "\"", ",", "\"", "p", "r", "i", "c", "e",
      "\"", ":", "\"", "9", ".", "5", "\"", ",", "\"", "a", "v", "a", "i", "l", "a",
      "b", "i", "l", "i", "t", "y", "S", "t", "a", "t", "u", "s", "\"", ":", "\"", "S",
      "o", "l", "d", " ", "o", "u", "t", "\"", "}", ";">>
ReduxGarbled ==
    <<"M", "=", "{", "x", "}", ";">>
TextAccessDenied ==
    <<"<", "h", "1", ">", "A", "c", "c", "e", "s", "s", " ", "D", "e", "n", "i", "e",
      "d", "<", "/", "h", "1", ">">>
TextVerifyHuman ==
    <<"V", "e", "r", "i", "f", "y", " ", "y", "o", "u", " ", "a", "r", "e", " ", "h",
      "u", "m", "a", "n">>
TextPageNotFound ==
    <<"P", "a", "g", "e", " ", "n", "o", "t", " ", "f", "o", "u", "n", "d">>
TextErreur404 ==
    <<"E", "r", "r", "e", "u", "r", " ", "4", "0", "4">>
TextPlain ==
    <<"<", "h", "t", "m", "l", ">", "<", "/", "h", "t", "m", "l", ">">>
UrlProduct ==
    <<"h", "t", "t", "p", "s", ":", "/", "/", "w", "w", "w", ".", "w", "a", "l", "m",
      "a", "r", "t", ".", "c", "a", "/", "f", "r", "/", "i", "p", "/", "1">>
UrlBlocked ==
    <<"h", "t", "t", "p", "s", ":", "/", "/", "w", "w", "w", ".", "w", "a", "l", "m",
      "a", "r", "t", ".", "c", "a", "/", "b", "l", "o", "c", "k", "e", "d", "?", "u",
      "r", "l", "=", "x">>
UrlErrors ==
    <<"h", "t", "t", "p", "s", ":", "/", "/", "w", "w", "w", ".", "w", "a", "l", "m",
      "a", "r", "t", ".", "c", "a", "/", "E", "r", "r", "o", "r", "s", "/", "x">>

PageTexts == <<TextPlain, TextAccessDenied, TextVerifyHuman, TextPageNotFound, TextErreur404>>
PageUrls == <<UrlProduct, UrlBlocked, UrlErrors>>
PageScripts ==
    <<<<>>,
      <<Script(TRUE, JsonInStockPriced)>>,
      <<Script(TRUE, JsonSoldOutPriced)>>,
      <<Script(TRUE, JsonPricedOnly)>>,
      <<Script(TRUE, JsonTitleOnly)>>,
      <<Script(TRUE, JsonInStockUnpriced)>>,
      <<Script(TRUE, JsonUntitled)>>,
      <<Script(TRUE, JsonTruncated), Script(FALSE, ReduxSoldOutPriced)>>,
      <<Script(FALSE, ReduxGarbled)>>>>
\* response.status; 0: page.goto returned no response
HttpStatuses == {0, 200, 403, 404, 429, 500}
Transports == {"ok", "timeout", "error"}

Page(transport, status, text, url, ss) ==
    [transport |-> transport, status |-> status, text |-> text, url |-> url, scripts |-> ss]

RequestSku == <<"1">>

InitClassify ==
    /\ \E transport \in Transports, status \in HttpStatuses, text \in 1..Len(PageTexts),
          url \in 1..Len(PageUrls), ss \in 1..Len(PageScripts) :
          page = Page(transport, status, PageTexts[text], PageUrls[url], PageScripts[ss])
    /\ outcome = Pending
    /\ RunIdle /\ BraceIdle /\ LocIdle /\ FieldIdle

FetchSkuStoreData ==
    /\ outcome.t = "pending"
    /\ outcome' = FetchOrNotFound(page, RequestSku, "s1", "a")
    /\ UNCHANGED <<page, runVars, braceVars, locVars, fieldVars>>

NextClassify == FetchSkuStoreData

SpecClassify == InitClassify /\ [][NextClassify]_vars

(***************************************************************************)
(* Spec: main(), one run over the stores and the SKUs                      *)
(***************************************************************************)
\* The entries of input/skus.json: an identifier, one to be stripped, a blank.
RawSkus == {<<"1">>, <<" ", "2", " ">>, <<" ">>}

\* The entries of input/stores.json; "" stands for a missing or empty field.
StoreEntry(store_id, store_slug) == [store_id |-> store_id, store_slug |-> store_slug]
StoreEntries ==
    {StoreEntry("s1", "a"), StoreEntry("s2", "b"), StoreEntry("s3", "a"),
     StoreEntry("", "c"), StoreEntry("s4", "")}
Slugs == {e.store_slug : e \in StoreEntries} \ {""}

\* "stores" of input/stores.json: a list of entries, or something that is no list.
StoresInputs ==
    {[list |-> FALSE, entries |-> <<>>]}
    \cup {[list |-> TRUE, entries |-> es] :
            es \in UNION {[1..n -> StoreEntries] : n \in 0..MaxStores}}

SkusInputs == UNION {[1..n -> RawSkus] : n \in 0..MaxSkus}

\* load_skus: [sku.strip() for sku in raw_skus if isinstance(sku, str) and sku.strip()]
RECURSIVE LoadedSkus(_, _)
LoadedSkus(raw, i) ==
    IF i > Len(raw) THEN <<>>
    ELSE IF Strip(raw[i]) # <<>> THEN <<Strip(raw[i])>> \o LoadedSkus(raw, i + 1)
    ELSE LoadedSkus(raw, i + 1)

\* The pages the retrieval may hand back for a product URL during a run.
RunPages ==
    {Page("timeout", 0, <<>>, UrlProduct, <<>>),
     Page("error", 0, <<>>, UrlProduct, <<>>),
     Page("ok", 429, TextAccessDenied, UrlBlocked, <<>>),
     Page("ok", 200, TextPlain, UrlProduct, <<Script(TRUE, JsonInStockPriced)>>)}

\* What _set_store_context may do: succeed, succeed after a swallowed network-idle
\* timeout, or raise from page.goto / page.evaluate / page.reload.
ContextOutcomes == {"ok", "idle_timeout", "goto_timeout", "error"}

NoFile == [exists |-> FALSE, store_id |-> "", store_slug |-> "", results |-> <<>>]

Init ==
    /\ input \in [skus : SkusInputs, stores : StoresInputs]
    /\ stores = <<>> /\ skus = <<>>
    /\ pc = "load"
    /\ si = 0 /\ ki = 0
    /\ results = <<>>
    /\ files = [s \in Slugs |-> NoFile]
    /\ ctxLog = <<>> /\ fetchLog = <<>>
    /\ failure = "none"
    /\ BraceIdle /\ LocIdle /\ FieldIdle /\ PageIdle

otherVars == <<braceVars, locVars, fieldVars, pageVars>>

\* skus = load_skus() raises ValueError("No SKUs found ...")
LoadSkusFails ==
    /\ pc = "load"
    /\ LoadedSkus(input.skus, 1) = <<>>
    /\ pc' = "failed"
    /\ failure' = "no_skus"
    /\ UNCHANGED <<input, stores, skus, si, ki, results, files, ctxLog, fetchLog, otherVars>>

\* stores = load_stores() raises ValueError("... must contain a 'stores' list")
LoadStoresFails ==
    /\ pc = "load"
    /\ LoadedSkus(input.skus, 1) # <<>>
    /\ ~input.stores.list
    /\ pc' = "failed"
    /\ failure' = "stores_not_a_list"
    /\ UNCHANGED <<input, stores, skus, si, ki, results, files, ctxLog, fetchLog, otherVars>>

\* Both inputs load; the loop over the stores begins.
LoadInputs ==
    /\ pc = "load"
    /\ LoadedSkus(input.skus, 1) # <<>>
    /\ input.stores.list
    /\ skus' = LoadedSkus(input.skus, 1)
    /\ stores' = input.stores.entries
    /\ si' = 1
    /\ pc' = "store"
    /\ UNCHANGED <<input, ki, results, files, ctxLog, fetchLog, failure, otherVars>>

\* if not store_id or not store_slug: raise ValueError(...)
RejectStore ==
    /\ pc = "store"
    /\ si <= Len(stores)
    /\ stores[si].store_id = "" \/ stores[si].store_slug = ""
    /\ pc' = "failed"
    /\ failure' = "store_entry"
    /\ UNCHANGED <<input, stores, skus, si, ki, results, files, ctxLog, fetchLog, otherVars>>

\* context = browser.new_context(...); page = context.new_page();
\* _set_store_context(page, str(store_id)), outside any try
SetStoreContext ==
    /\ pc = "store"
    /\ si <= Len(stores)
    /\ stores[si].store_id # "" /\ stores[si].store_slug # ""
    /\ \E r \in ContextOutcomes :
          /\ ctxLog' = Append(ctxLog, [store |-> si, raised |-> r \in {"goto_timeout", "error"}])
          /\ IF r \in {"ok", "idle_timeout"}
             THEN /\ pc' = "fetch"
                  /\ ki' = 1
                  /\ results' = <<>>
                  /\ UNCHANGED failure
             ELSE /\ pc' = "failed"
                  /\ failure' = "store_context"
                  /\ UNCHANGED <<ki, results>>
    /\ UNCHANGED <<input, stores, skus, si, files, fetchLog, otherVars>>

\* One iteration of for sku in skus: the fetch under try / except Exception,
\* then results.append(result).
FetchSku ==
    /\ pc = "fetch"
    /\ ki <= Len(skus)
    /\ \E p \in RunPages :
          results' = Append(results,
                            FetchOrNotFound(p, skus[ki], stores[si].store_id,
                                            stores[si].store_slug))
    /\ fetchLog' = Append(fetchLog, <<si, ki>>)
    /\ ki' = ki + 1
    /\ UNCHANGED <<input, stores, skus, pc, si, files, ctxLog, failure, otherVars>>

\* context.close(); out_path = out_dir / f"{store_slug}.json"; json.dump(...)
WriteSnapshot ==
    /\ pc = "fetch"
    /\ ki > Len(skus)
    /\ files' = [files EXCEPT ![stores[si].store_slug] =
                    [exists |-> TRUE, store_id |-> stores[si].store_id,
                     store_slug |-> stores[si].store_slug, results |-> results]]
    /\ si' = si + 1
    /\ pc' = "store"
    /\ UNCHANGED <<input, stores, skus, ki, results, ctxLog, fetchLog, failure, otherVars>>

\* The loop over the stores is exhausted: browser.close()
Finish ==
    /\ pc = "store"
    /\ si > Len(stores)
    /\ pc' = "done"
    /\ UNCHANGED <<input, stores, skus, si, ki, results, files, ctxLog, fetchLog, failure,
                   otherVars>>

Next ==
    \/ LoadSkusFails
    \/ LoadStoresFails
    \/ LoadInputs
    \/ RejectStore
    \/ SetStoreContext
    \/ FetchSku
    \/ WriteSnapshot
    \/ Finish

Spec == Init /\ [][Next]_vars


(***************************************************************************)
(* C2                                                                      *)
(***************************************************************************)
C2_Html == Lower(PageContent(page))
C2_Blocked ==
    \/ page.status \in {403, 429}
    \/ \E tok \in {TokAccessDenied, TokAutomatedAccess, TokCaptcha, TokVerifyHuman,
                   TokForbidden} : Contains(C2_Html, tok)
    \/ Contains(Lower(page.url), TokBlockedPath)
C2_NotFound ==
    \/ page.status = 404
    \/ \E tok \in {Tok404, TokPageIntrouvable, TokPageNotFound} : Contains(C2_Html, tok)
    \/ Contains(Lower(page.url), TokErrorsPath)
C2_Payload == _extract_embedded_data(page.scripts)
C2_Facts == _extract_product_fields(C2_Payload, RequestSku)

\* C2: the status of the outcome is that of the first rule that matches, in the
\* order: transport failure -> not_found; 403, 429 or a blocked marker -> blocked;
\* 404 or a not-found marker -> not_found; no payload -> not_found; no facts ->
\* not_found; in_stock false -> out_of_stock; price_current a number -> ok;
\* otherwise not_found.
C2_FirstMatchingRule ==
    outcome.t # "pending" =>
        /\ outcome.t = "result"
        /\ outcome.status =
             IF page.transport # "ok" THEN "not_found"
             ELSE IF C2_Blocked THEN "blocked"
             ELSE IF C2_NotFound THEN "not_found"
             ELSE IF C2_Payload.t = "none" THEN "not_found"
             ELSE IF C2_Facts.t = "none" THEN "not_found"
             ELSE IF C2_Facts.in_stock = VBool(FALSE) THEN "out_of_stock"
             ELSE IF C2_Facts.price_current.t = "num" THEN "ok"
             ELSE "not_found"

\* A page answered 200 whose product is sold out and priced: out_of_stock, with
\* the price kept in the facts.
C2_Witness ==
    /\ outcome.t = "result"
    /\ page.status = 200
    /\ outcome.status = "out_of_stock"
    /\ outcome.facts.t = "facts"
    /\ outcome.facts.price_current.t = "num"


(***************************************************************************)
(* C8                                                                      *)
(***************************************************************************)
\* The reading mode after the characters s..i of the text: outside a string
\* literal, inside one, or inside one with an escape pending.
RECURSIVE C8_ModeAfter(_, _, _)
C8_ModeAfter(text, s, i) ==
    IF i < s THEN "out"
    ELSE LET m == C8_ModeAfter(text, s, i - 1)
         IN CASE m = "esc" -> "in"
              [] m = "in" -> IF text[i] = "\\" THEN "esc"
                             ELSE IF text[i] = "\"" THEN "out" ELSE "in"
              [] OTHER -> IF text[i] = "\"" THEN "in" ELSE "out"

\* Character i stands outside every string literal opened since s.
C8_Outside(text, s, i) == C8_ModeAfter(text, s, i - 1) = "out"

\* The brace depth after the characters s..i, braces inside literals not counted.
C8_Depth(text, s, i) ==
    Cardinality({j \in s..i : text[j] = "{" /\ C8_Outside(text, s, j)})
    - Cardinality({j \in s..i : text[j] = "}" /\ C8_Outside(text, s, j)})

\* C8: the segment returned is absent when the marker is absent, no "{" follows
\* it, or the depth never returns to zero; otherwise it is exactly the text from
\* the first "{" after the marker through the first "}" outside a string literal
\* at which the depth, counted outside string literals, is zero.
C8_BracedSegment ==
    segment.t # "pending" =>
        LET markers == {i \in 1..Len(raw_text) : MatchAt(raw_text, Marker, i)}
            opens == {i \in Min(markers)..Len(raw_text) : raw_text[i] = "{"}
            closes == {e \in Min(opens)..Len(raw_text) :
                          /\ raw_text[e] = "}"
                          /\ C8_Outside(raw_text, Min(opens), e)
                          /\ C8_Depth(raw_text, Min(opens), e) = 0}
        IN IF markers = {} THEN segment = NoneV
           ELSE IF opens = {} THEN segment = NoneV
           ELSE IF closes = {} THEN segment = NoneV
           ELSE segment = VStr(SubSeq(raw_text, Min(opens), Min(closes)))

\* A segment whose string literal holds a closing brace, which closes nothing.
C8_Witness ==
    /\ Contains(raw_text, Marker)
    /\ segment = VStr(<<"{", "\"", "}", "\"", "}">>)

(***************************************************************************)
(* C10                                                                     *)
(***************************************************************************)
\* The body of script i decodes as JSON.
C10_BodyDecodes(i) == scripts[i].body # <<>> /\ JsonLoads(scripts[i].body).ok

\* Script i is a candidate that yields valid JSON: it contains the marker and
\* its braced segment decodes.
C10_SegmentDecodes(i) ==
    /\ Contains(scripts[i].body, Marker)
    /\ _extract_braced_json(scripts[i].body, Marker).t = "str"
    /\ JsonLoads(_extract_braced_json(scripts[i].body, Marker).v).ok

\* C10: the tree located is that of the dedicated script when its body decodes;
\* otherwise that of the first script, in document order, that contains the marker
\* and whose braced segment decodes; nothing is returned only when no script yields
\* valid JSON; a decode failure never raises.
C10_LocatorOrder ==
    located.t # "pending" =>
        LET dedicated == {i \in 1..Len(scripts) : scripts[i].id}
            good == {i \in 1..Len(scripts) : C10_SegmentDecodes(i)}
        IN /\ located.t # "raise"
           /\ IF dedicated # {} /\ C10_BodyDecodes(Min(dedicated))
              THEN located = JsonLoads(scripts[Min(dedicated)].body).val
              ELSE IF good # {}
              THEN located =
                     JsonLoads(_extract_braced_json(scripts[Min(good)].body, Marker).v).val
              ELSE located = NoneV
           /\ located = NoneV =>
                 /\ \A i \in dedicated : ~C10_BodyDecodes(i) \/ i # Min(dedicated)
                 /\ good = {}

\* The dedicated script fails to decode, the first marker script fails to decode,
\* and the tree comes from a later marker script.
C10_Witness ==
    /\ located.t = "map"
    /\ Len(scripts) = 3
    /\ scripts[1].id /\ ~C10_BodyDecodes(1)
    /\ Contains(scripts[2].body, Marker) /\ ~C10_SegmentDecodes(2)
    /\ C10_SegmentDecodes(3)

(***************************************************************************)
(* C6                                                                      *)
(***************************************************************************)
\* The availability text of the resolved product, lower-cased ("" when none).
C6_Text == IF extracted.availability.t = "none" THEN <<>> ELSE Lower(extracted.availability.v)

C6_SaysOut ==
    \E tok \in {TokOutOfStock, TokUnavailable, TokSoldOut, TokRupture} : Contains(C6_Text, tok)

C6_SaysIn == \E tok \in {TokInStock, TokAvailable, TokPickup} : Contains(C6_Text, tok)

\* C6: in_stock is the product's boolean stock flag when it carries one; otherwise
\* false when the availability text contains "out of stock", "unavailable",
\* "sold out" or "rupture", true when it contains "in stock", "available" or
\* "pickup", and unknown when it contains none of them. (A text holding tokens
\* of both lists, as every text with "unavailable" does, is read by the list named
\* first in the claim.)
C6_StockFlag ==
    extracted.t = "facts" =>
        LET flag == Get(product, K_inStock)
        IN IF flag.t = "bool" THEN extracted.in_stock = flag
           ELSE IF C6_SaysOut THEN extracted.in_stock = VBool(FALSE)
           ELSE IF C6_SaysIn THEN extracted.in_stock = VBool(TRUE)
           ELSE extracted.in_stock = NoneV

(***************************************************************************)
(* C7                                                                      *)
(***************************************************************************)
\* The identifier of a node: the first of sku, id, usItemId present and non-empty.
C7_Identifier(node) ==
    LET present == {k \in 1..Len(IdKeys) : HasKey(node, IdKeys[k]) /\ Truthy(Get(node, IdKeys[k]))}
    IN IF present = {} THEN NoneV ELSE Get(node, IdKeys[Min(present)])

C7_Matches(node) ==
    /\ C7_Identifier(node).t \in {"str", "int"}
    /\ Strip(PyStr(C7_Identifier(node))) = Strip(sku)

C7_Nodes == _walk_items(data)

\* The tree holds exactly two nodes: one whose identifier matches the target
\* and one whose identifier does not.
C7_TwoNodes ==
    /\ Len(C7_Nodes) = 2
    /\ \A i \in 1..2 : C7_Identifier(C7_Nodes[i]).t # "none"
    /\ Cardinality({i \in 1..2 : C7_Matches(C7_Nodes[i])}) = 1

C7_MatchingNode == C7_Nodes[CHOOSE i \in 1..2 : C7_Matches(C7_Nodes[i])]
C7_OtherNode == C7_Nodes[CHOOSE i \in 1..2 : ~C7_Matches(C7_Nodes[i])]

C9_OutputIdentifier ==
    extracted.t = "facts" =>
        IF C7_Identifier(product).t # "none"
        THEN extracted.sku = PyStr(C7_Identifier(product))
        ELSE extracted.sku = sku

(***************************************************************************)
(* C1, C3, C4, C5: the run                                                 *)
(***************************************************************************)
\* The run is over: it completed, or an exception ended it.
RunEnded == pc \in {"done", "failed"}

\* A store entry carries a non-empty store_id and store_slug.
WellFormed(entry) == entry.store_id # "" /\ entry.store_slug # ""

\* The configuration is sound: some SKU loads, and the stores are a list of
\* well-formed entries.
ConfigValid ==
    /\ LoadedSkus(input.skus, 1) # <<>>
    /\ input.stores.list
    /\ \A i \in 1..Len(input.stores.entries) : WellFormed(input.stores.entries[i])

\* The snapshot at the slug of the i-th store entry is that store's, and holds one
\* result per input SKU, in input SKU order (a result carries the SKU asked for,
\* or facts extracted for it).
SnapshotComplete(i) ==
    LET entry == input.stores.entries[i]
        file == files[entry.store_slug]
        requested == LoadedSkus(input.skus, 1)
    IN /\ file.exists
       /\ file.store_id = entry.store_id
       /\ Len(file.results) = Len(requested)
       /\ \A k \in 1..Len(requested) :
             /\ file.results[k].store_id = entry.store_id
             /\ file.results[k].sku = requested[k] \/ file.results[k].facts.t = "facts"

\* C1: once a run over a sound configuration is over, the snapshot of every store
\* of the list holds exactly one result per input SKU, in input SKU order, whatever
\* each fetch did (returned, timed out, raised): no (store, SKU) pair is dropped.
C1_EveryPairRecorded ==
    (RunEnded /\ ConfigValid) =>
        \A i \in 1..Len(input.stores.entries) : SnapshotComplete(i)

\* C3: a store-context step that raises does not abort the run: the run does not
\* end on it, and the SKUs of that store and of every later store are fetched and
\* their snapshots written.
C3_ContextBestEffort ==
    \A j \in 1..Len(ctxLog) :
        ctxLog[j].raised =>
            /\ pc # "failed"
            /\ pc = "done" =>
                  \A i \in ctxLog[j].store..Len(stores) :
                      /\ files[stores[i].store_slug].exists
                      /\ \A k \in 1..Len(skus) : \E f \in 1..Len(fetchLog) : fetchLog[f] = <<i, k>>

\* C4: when any entry of the store list is malformed, whatever its position, no
\* store context is set, no product page is fetched and no snapshot is written.
C4_ConfigErrorBeforeAnyFetch ==
    (input.stores.list
     /\ \E i \in 1..Len(input.stores.entries) : ~WellFormed(input.stores.entries[i]))
    => /\ ctxLog = <<>>
       /\ fetchLog = <<>>
       /\ \A slug \in Slugs : ~files[slug].exists
       /\ pc # "done"

\* C5: a completed run has written one snapshot per store of the list, each
\* holding that store's results, and no snapshot, once written, is written again.
C5_WrittenOnce ==
    /\ [](pc = "done" => \A i \in 1..Len(stores) : SnapshotComplete(i))
    /\ [][\A slug \in Slugs : files[slug].exists => files'[slug] = files[slug]]_vars

====
